---------------------------- MODULE Spec2Model ----------------------------
(***************************************************************************)
(* SipHash-2-4 streaming engine of c-siphash (src/src/c-siphash.c).        *)
(*                                                                         *)
(* A uint64_t is a tuple of four 16-bit limbs, least significant first:    *)
(* <<l0, l1, l2, l3>> stands for l0 + 2^16*l1 + 2^32*l2 + 2^48*l3.  All    *)
(* 64-bit operations of the C code (+, ^, |, <<, >>) are computed on that  *)
(* representation at their full width, wrapping modulo 2^64.               *)
(*                                                                         *)
(* A byte buffer is a sequence of bytes; the C pointer `bytes` is an       *)
(* offset into it (offset 0 is the first byte), `end` is an offset too.    *)
(***************************************************************************)
EXTENDS Integers, Sequences, FiniteSets, TLC

(***************************************************************************)
(* 64-bit words                                                            *)
(***************************************************************************)
Limb == 2^16

RECURSIVE BitXor(_, _)
BitXor(a, b) ==
    IF a = 0 THEN b
    ELSE IF b = 0 THEN a
    ELSE ((a + b) % 2) + 2 * BitXor(a \div 2, b \div 2)

RECURSIVE BitOr(_, _)
BitOr(a, b) ==
    IF a = 0 THEN b
    ELSE IF b = 0 THEN a
    ELSE (IF a % 2 = 1 \/ b % 2 = 1 THEN 1 ELSE 0) + 2 * BitOr(a \div 2, b \div 2)

\* x ^ y
Xor64(x, y) == [i \in 1..4 |-> BitXor(x[i], y[i])]

\* x | y
Or64(x, y) == [i \in 1..4 |-> BitOr(x[i], y[i])]

\* x + y  (uint64_t, wraps)
Add64(x, y) ==
    LET s1 == x[1] + y[1]
        s2 == x[2] + y[2] + (s1 \div Limb)
        s3 == x[3] + y[3] + (s2 \div Limb)
        s4 == x[4] + y[4] + (s3 \div Limb)
    IN  <<s1 % Limb, s2 % Limb, s3 % Limb, s4 % Limb>>

\* x << b, 0 <= b < 64
Shl64(x, b) ==
    LET q == b \div 16
        s == b % 16
        lo(i) == IF i - q >= 1 THEN (x[i - q] % (2^(16 - s))) * (2^s) ELSE 0
        hi(i) == IF i - q - 1 >= 1 THEN x[i - q - 1] \div (2^(16 - s)) ELSE 0
    IN  [i \in 1..4 |-> lo(i) + hi(i)]

\* x >> b, 0 <= b < 64
Shr64(x, b) ==
    LET q == b \div 16
        s == b % 16
        lo(i) == IF i + q <= 4 THEN x[i + q] \div (2^s) ELSE 0
        hi(i) == IF i + q + 1 <= 4 THEN (x[i + q + 1] % (2^s)) * (2^(16 - s)) ELSE 0
    IN  [i \in 1..4 |-> lo(i) + hi(i)]

\* (uint64_t) n for a byte or a size_t: all four limbs of n, so that no bit
\* of a 64-bit size_t is dropped
U64(n) ==
    <<n % Limb,
      (n \div Limb) % Limb,
      ((n \div Limb) \div Limb) % Limb,
      (((n \div Limb) \div Limb) \div Limb) % Limb>>

\* a 64-bit literal written as its four 16-bit groups, most significant first
Lit64(a, b, c, d) == <<d, c, b, a>>

Zero64 == <<0, 0, 0, 0>>

\* F(v) with v computed once and then named, as a C local is
Bind(v, F(_)) == CHOOSE r \in {F(y) : y \in {v}} : TRUE

(***************************************************************************)
(* c_siphash_read_le64, c_siphash_rotate_left, c_siphash_sipround          *)
(***************************************************************************)
\* *(bytes + i): the byte at offset i of the buffer
Deref(bytes, i) == bytes[i + 1]

c_siphash_read_le64(bytes, p) ==
    Or64(Or64(Or64(Or64(Or64(Or64(Or64(
        U64(Deref(bytes, p)),
        Shl64(U64(Deref(bytes, p + 1)), 8)),
        Shl64(U64(Deref(bytes, p + 2)), 16)),
        Shl64(U64(Deref(bytes, p + 3)), 24)),
        Shl64(U64(Deref(bytes, p + 4)), 32)),
        Shl64(U64(Deref(bytes, p + 5)), 40)),
        Shl64(U64(Deref(bytes, p + 6)), 48)),
        Shl64(U64(Deref(bytes, p + 7)), 56))

\* a rotation written for 32-bit words: x >> (32 - b)
c_siphash_rotate_left_32(x, b) == Or64(Shl64(x, b), Shr64(x, (32 - b) % 64))

c_siphash_rotate_left(x, b) == Or64(Shl64(x, b), Shr64(x, 64 - b))

\* the statement at a source line of c_siphash_sipround (lines 35..48)
SipStatement(s, line) ==
    CASE line = 35 -> [s EXCEPT !.v0 = Add64(s.v0, s.v1)]
      [] line = 36 -> [s EXCEPT !.v1 = c_siphash_rotate_left(s.v1, 13)]
      [] line = 37 -> [s EXCEPT !.v1 = Xor64(s.v1, s.v0)]
      [] line = 38 -> [s EXCEPT !.v0 = c_siphash_rotate_left(s.v0, 32)]
      [] line = 39 -> [s EXCEPT !.v2 = Add64(s.v2, s.v3)]
      [] line = 40 -> [s EXCEPT !.v3 = c_siphash_rotate_left(s.v3, 16)]
      [] line = 41 -> [s EXCEPT !.v3 = Xor64(s.v3, s.v2)]
      [] line = 42 -> [s EXCEPT !.v0 = Add64(s.v0, s.v3)]
      [] line = 43 -> [s EXCEPT !.v3 = c_siphash_rotate_left(s.v3, 21)]
      [] line = 44 -> [s EXCEPT !.v3 = Xor64(s.v3, s.v0)]
      [] line = 45 -> [s EXCEPT !.v2 = Add64(s.v2, s.v1)]
      [] line = 46 -> [s EXCEPT !.v1 = c_siphash_rotate_left(s.v1, 17)]
      [] line = 47 -> [s EXCEPT !.v1 = Xor64(s.v1, s.v2)]
      [] line = 48 -> [s EXCEPT !.v2 = c_siphash_rotate_left(s.v2, 32)]

\* the statements from `line` to the end of the function, in order
RECURSIVE SipStatements(_, _)
SipStatements(s, line) ==
    IF line > 48 THEN s
    ELSE Bind(SipStatement(s, line), LAMBDA t : SipStatements(t, line + 1))

c_siphash_sipround(state) == Bind(state, LAMBDA s : SipStatements(s, 35))

(***************************************************************************)
(* CSipHash and the public operations                                      *)
(***************************************************************************)
\* C_SIPHASH_NULL: the all-zero struct a caller declares before c_siphash_init
C_SIPHASH_NULL ==
    [v0 |-> Zero64, v1 |-> Zero64, v2 |-> Zero64, v3 |-> Zero64,
     padding |-> Zero64, n_bytes |-> Zero64]

\* x & 7 and x % sizeof(uint64_t), as a number in 0..7
And7(x) == x[1] % 8
ModWord(x) == x[1] % 8

\* an init that sets the lanes and leaves padding and n_bytes as they were
c_siphash_init_KeepsPending(state, seed) ==
    LET k0 == c_siphash_read_le64(seed, 0)
        k1 == c_siphash_read_le64(seed, 8)
    IN  [v0 |-> Xor64(Lit64(29551, 28005, 28787, 25973), k0),
         v1 |-> Xor64(Lit64(25711, 29281, 28260, 28525), k1),
         v2 |-> Xor64(Lit64(27769, 26469, 28261, 29281), k0),
         v3 |-> Xor64(Lit64(29797, 25698, 31092, 25971), k1),
         padding |-> state.padding,
         n_bytes |-> state.n_bytes]

\* *state = (CSipHash) { ... }: every field is overwritten
c_siphash_init(state, seed) ==
    LET k0 == c_siphash_read_le64(seed, 0)
        k1 == c_siphash_read_le64(seed, 8)
    IN  [v0 |-> Xor64(Lit64(29551, 28005, 28787, 25973), k0),
         v1 |-> Xor64(Lit64(25711, 29281, 28260, 28525), k1),
         v2 |-> Xor64(Lit64(27769, 26469, 28261, 29281), k0),
         v3 |-> Xor64(Lit64(29797, 25698, 31092, 25971), k1),
         padding |-> Zero64,
         n_bytes |-> Zero64]

\* a mix with a single round
Compress_OneRound(state, m) ==
    Bind(c_siphash_sipround([state EXCEPT !.v3 = Xor64(state.v3, m)]),
         LAMBDA s : [s EXCEPT !.v0 = Xor64(s.v0, m)])

\* v3 ^= m; two rounds; v0 ^= m
Compress(state, m) ==
    Bind(c_siphash_sipround(c_siphash_sipround(
            [state EXCEPT !.v3 = Xor64(state.v3, m)])),
         LAMBDA s : [s EXCEPT !.v0 = Xor64(s.v0, m)])

\* for ( ; bytes < end && left < 8; ++bytes, ++left) padding |= *bytes << (left * 8)
\* x = [st: the struct, pos: offset of `bytes`, left, rd: offsets dereferenced]
RECURSIVE DrainLoop(_, _, _)
DrainLoop(x, bytes, end) ==
    IF x.pos < end /\ x.left < 8
    THEN Bind([st   |-> [x.st EXCEPT !.padding =
                            Or64(x.st.padding,
                                 Shl64(U64(Deref(bytes, x.pos)), x.left * 8))],
               pos  |-> x.pos + 1,
               left |-> x.left + 1,
               rd   |-> x.rd \cup {x.pos}],
              LAMBDA y : DrainLoop(y, bytes, end))
    ELSE x

\* for ( ; bytes < end; bytes += 8) { m = read_le64(bytes); mix m }
RECURSIVE WordLoop(_, _, _)
WordLoop(x, bytes, end) ==
    IF x.pos < end
    THEN Bind([st   |-> Bind(c_siphash_read_le64(bytes, x.pos),
                             LAMBDA m : Compress(x.st, m)),
               pos  |-> x.pos + 8,
               left |-> x.left,
               rd   |-> x.rd \cup (x.pos .. x.pos + 7)],
              LAMBDA y : WordLoop(y, bytes, end))
    ELSE x

\* switch (left): case k falls through to case k - 1, each case ORs bytes[k - 1]
RECURSIVE TailSwitch(_, _, _)
TailSwitch(x, bytes, k) ==
    IF k = 0 THEN x
    ELSE Bind([x EXCEPT !.st.padding =
                           Or64(@, Shl64(U64(Deref(bytes, x.pos + k - 1)), 8 * (k - 1))),
                        !.rd = @ \cup {x.pos + k - 1}],
              LAMBDA y : TailSwitch(y, bytes, k - 1))

\* a word loop that runs while bytes < end, `end -= n_bytes % 8` left out
AppendAligned_FullEnd(x, bytes, end) ==
    Bind(WordLoop(x, bytes, end),
         LAMBDA y : TailSwitch(y, bytes, And7(y.st.n_bytes)))

\* lines 133-179: the word loop up to end - n_bytes % 8, then the trailing bytes
AppendAligned(x, bytes, end) ==
    Bind(WordLoop(x, bytes, end - ModWord(x.st.n_bytes)),
         LAMBDA y : TailSwitch(y, bytes, And7(y.st.n_bytes)))

\* a drain path that mixes the completed word and does not clear padding
AppendDrain_NoPaddingReset(x, bytes, end) ==
    Bind(DrainLoop(x, bytes, end),
         LAMBDA y :
            IF y.pos = end /\ y.left < 8
            THEN y
            ELSE Bind([y EXCEPT !.st = Compress(y.st, y.st.padding)],
                      LAMBDA z : AppendAligned(z, bytes, end)))

\* a drain path that clears padding before it tests for the early return
AppendDrain_ClearsBeforeReturn(x, bytes, end) ==
    Bind(DrainLoop(x, bytes, end),
         LAMBDA y :
            IF y.pos = end /\ y.left < 8
            THEN [y EXCEPT !.st.padding = Zero64]
            ELSE Bind([y EXCEPT !.st = [Compress(y.st, y.st.padding)
                                           EXCEPT !.padding = Zero64]],
                      LAMBDA z : AppendAligned(z, bytes, end)))

\* lines 118-131: the byte loop, the early return, the mix of the completed word
AppendDrain(x, bytes, end) ==
    Bind(DrainLoop(x, bytes, end),
         LAMBDA y :
            IF y.pos = end /\ y.left < 8
            THEN y
            ELSE Bind([y EXCEPT !.st = [Compress(y.st, y.st.padding)
                                           EXCEPT !.padding = Zero64]],
                      LAMBDA z : AppendAligned(z, bytes, end)))

\* an append that takes `left` from n_bytes after adding the new length to it
AppendExec_LeftAfterAdd(state, bytes, n_bytes) ==
    Bind([st   |-> [state EXCEPT !.n_bytes = Add64(state.n_bytes, U64(n_bytes))],
          pos  |-> 0,
          left |-> And7(Add64(state.n_bytes, U64(n_bytes))),
          rd   |-> {}],
         LAMBDA x :
            IF x.left > 0
            THEN AppendDrain(x, bytes, n_bytes)
            ELSE AppendAligned(x, bytes, n_bytes))

\* c_siphash_append with the offsets it dereferences: [st, pos, left, rd]
AppendExec(state, bytes, n_bytes) ==
    Bind([st   |-> [state EXCEPT !.n_bytes = Add64(state.n_bytes, U64(n_bytes))],
          pos  |-> 0,
          left |-> And7(state.n_bytes),
          rd   |-> {}],
         LAMBDA x :
            IF x.left > 0
            THEN AppendDrain(x, bytes, n_bytes)
            ELSE AppendAligned(x, bytes, n_bytes))

c_siphash_append(state, bytes, n_bytes) == AppendExec(state, bytes, n_bytes).st

\* a finalization that xors 0xee into v2, as the 128-bit variant of SipHash does
FinalizeRounds_0xee(state, b) ==
    Bind(Compress(state, b),
         LAMBDA s1 :
            Bind(c_siphash_sipround(c_siphash_sipround(
                    [s1 EXCEPT !.v2 = Xor64(s1.v2, U64(238))])),
                 LAMBDA s2 :
                    Bind(c_siphash_sipround(c_siphash_sipround(s2)),
                         LAMBDA s3 :
                            [st |-> s3, b |-> b,
                             ret |-> Xor64(Xor64(Xor64(s3.v0, s3.v1), s3.v2), s3.v3)])))

\* lines 202-214 of c_siphash_finalize, b being the final block:
\* [st: the struct afterwards, b, ret: the hash]
FinalizeRounds(state, b) ==
    Bind(Compress(state, b),
         LAMBDA s1 :
            Bind(c_siphash_sipround(c_siphash_sipround(
                    [s1 EXCEPT !.v2 = Xor64(s1.v2, U64(255))])),
                 LAMBDA s2 :
                    Bind(c_siphash_sipround(c_siphash_sipround(s2)),
                         LAMBDA s3 :
                            [st |-> s3, b |-> b,
                             ret |-> Xor64(Xor64(Xor64(s3.v0, s3.v1), s3.v2), s3.v3)])))

\* a final block with the length shifted by 48 bits
FinalizeExec_Shift48(state) ==
    Bind(Or64(state.padding, Shl64(state.n_bytes, 48)),
         LAMBDA b : FinalizeRounds(state, b))

FinalizeExec(state) ==
    Bind(Or64(state.padding, Shl64(state.n_bytes, 56)),
         LAMBDA b : FinalizeRounds(state, b))

c_siphash_finalize(state) == FinalizeExec(state).ret

\* a one-shot hash that finalizes without appending
c_siphash_hash_NoAppend(seed, bytes, n_bytes) ==
    Bind(c_siphash_init(C_SIPHASH_NULL, seed),
         LAMBDA s0 : c_siphash_finalize(s0))

c_siphash_hash(seed, bytes, n_bytes) ==
    Bind(c_siphash_init(C_SIPHASH_NULL, seed),
         LAMBDA s0 :
            Bind(c_siphash_append(s0, bytes, n_bytes),
                 LAMBDA s1 : c_siphash_finalize(s1)))

(***************************************************************************)
(* Callers: seeds, input streams and buffers                               *)
(***************************************************************************)
\* longest message fed to one engine, in bytes
MaxLen == 17
\* bytes a caller's buffer holds after the n_bytes it passes
Slack == 8
\* longest message of the one-shot vectors
MaxVec == 63
\* longest message fed to one engine in block-wise hashing
MaxLong == 270

\* seed bytes 0x00 .. 0x0f of the reference vectors
VecSeed == [i \in 1..16 |-> i - 1]
\* the seed of test_api: ASCII "0123456789abcdef"
ApiSeed == <<48, 49, 50, 51, 52, 53, 54, 55, 56, 57, 97, 98, 99, 100, 101, 102>>
Seeds == {VecSeed, ApiSeed}

\* the byte at offset i of the data a caller hashes: "count" is 0, 1, 2, ...
\* (the reference vectors' messages), "mixed" has the high bit set at times
Sources == {"count", "mixed"}
SourceByte(src, i) == IF src = "count" THEN i % 256 ELSE (200 + 37 * i) % 256
Chunk(src, off, n) == [k \in 1..n |-> SourceByte(src, off + k - 1)]

\* the callers of the streaming interface: a seed and the data hashed under it
Callers == {<<VecSeed, "count">>, <<ApiSeed, "mixed">>}

\* what follows the n_bytes in the caller's buffer: Slack bytes of value fill
Trailing(fill) == [k \in 1..Slack |-> fill]
\* the buffers a caller may pass for n bytes at offset off of its data;
\* for n = 0 also the NULL pointer, a buffer with no byte at all
Buffers(src, off, n) ==
    {Chunk(src, off, n) \o Trailing(255)}
        \cup (IF n = 0 THEN {<< >>} ELSE {})

\* the chunk lengths of block-wise hashing
BlockLens == {25, 64}

(***************************************************************************)
(* The engine and its caller                                               *)
(***************************************************************************)
VARIABLES
    state,    \* the CSipHash struct
    pc,       \* "null" (never initialized), "active", "final" (finalized)
    seed,     \* the seed of the last c_siphash_init
    source,   \* the data the caller is hashing
    msg,      \* the bytes appended since the last c_siphash_init
    chunks,   \* appends since the last c_siphash_init: "none", "one", "many"
    reused,   \* TRUE once c_siphash_init ran on an engine that was in use
    digest,   \* what the last c_siphash_finalize returned
    call      \* the last call: its arguments, the struct before it, its result

vars == <<state, pc, seed, source, msg, chunks, reused, digest, call>>

NoCall == [op |-> "none"]

Init ==
    /\ state = C_SIPHASH_NULL
    /\ pc = "null"
    /\ seed = VecSeed
    /\ source = "count"
    /\ msg = << >>
    /\ chunks = "none"
    /\ reused = FALSE
    /\ digest = Zero64
    /\ call = NoCall

\* c_siphash_init(&state, sd), on a fresh engine or on a used one
DoInit(sd, src) ==
    /\ state' = c_siphash_init(state, sd)
    /\ pc' = "active"
    /\ seed' = sd
    /\ source' = src
    /\ msg' = << >>
    /\ chunks' = "none"
    /\ reused' = (pc # "null")
    /\ digest' = Zero64
    /\ call' = [op |-> "init", pre |-> state, was |-> pc]

\* c_siphash_append(&state, bytes, n)
DoAppend(bytes, n) ==
    /\ pc = "active"
    /\ LET x == AppendExec(state, bytes, n)
       IN  /\ state' = x.st
           /\ call' = [op |-> "append", pre |-> state, bytes |-> bytes, n |-> n,
                       rd |-> x.rd]
    /\ msg' = msg \o SubSeq(bytes, 1, n)
    /\ chunks' = IF chunks = "none" THEN "one" ELSE "many"
    /\ UNCHANGED <<pc, seed, source, reused, digest>>

\* hash = c_siphash_finalize(&state)
DoFinalize ==
    /\ pc = "active"
    /\ LET x == FinalizeExec(state)
       IN  /\ state' = x.st
           /\ digest' = x.ret
           /\ call' = [op |-> "finalize", pre |-> state, b |-> x.b, ret |-> x.ret]
    /\ pc' = "final"
    /\ UNCHANGED <<seed, source, msg, chunks, reused>>

\* c_siphash_hash(sd, bytes, n): works on a struct of its own
DoHash(sd, src, bytes, n) ==
    /\ call' = [op |-> "hash", seed |-> sd, source |-> src, bytes |-> bytes, n |-> n,
                ret |-> c_siphash_hash(sd, bytes, n)]
    /\ UNCHANGED <<state, pc, seed, source, msg, chunks, reused, digest>>

CallInit == \E c \in Callers : DoInit(c[1], c[2])

CallAppend ==
    \E n \in 0 .. (MaxLen - Len(msg)) :
        \E bytes \in Buffers(source, Len(msg), n) : DoAppend(bytes, n)

CallFinalize == DoFinalize

\* the one-shot call over the message the engine has just hashed
CallHash ==
    /\ pc = "final"
    /\ \E bytes \in Buffers(source, 0, Len(msg)) :
          DoHash(seed, source, bytes, Len(msg))

Next == CallInit \/ CallAppend \/ CallFinalize \/ CallHash

Spec == Init /\ [][Next]_vars

\* the one-shot call over messages of length 0, 1, 2, ... in turn, as the
\* reference vectors are laid out: one seed and one source per run
CallHashVector ==
    \E sd \in Seeds, src \in Sources :
        /\ call.op = "hash" => (sd = call.seed /\ src = call.source)
        /\ LET n == IF call.op = "hash" THEN call.n + 1 ELSE 0
           IN  /\ n <= MaxVec
               /\ \E bytes \in Buffers(src, 0, n) : DoHash(sd, src, bytes, n)

NextVec == CallHashVector

SpecVec == Init /\ [][NextVec]_vars

\* block-wise hashing of long inputs
CallAppendBlock ==
    \E n \in BlockLens :
        /\ Len(msg) + n <= MaxLong
        /\ \E bytes \in Buffers(source, Len(msg), n) : DoAppend(bytes, n)

NextLong == CallInit \/ CallAppendBlock \/ CallFinalize

SpecLong == Init /\ [][NextLong]_vars

(***************************************************************************)
(* Reference values and independent readings used by the properties        *)
(***************************************************************************)
\* the number n < 2^32 as a 64-bit word
WordOf(n) == <<n % 65536, n \div 65536, 0, 0>>

\* the little-endian word of at most 8 bytes, absent bytes being 0
ByteOr0(bs, i) == IF i <= Len(bs) THEN bs[i] ELSE 0
PackLE(bs) ==
    <<ByteOr0(bs, 1) + 256 * ByteOr0(bs, 2), ByteOr0(bs, 3) + 256 * ByteOr0(bs, 4),
      ByteOr0(bs, 5) + 256 * ByteOr0(bs, 6), ByteOr0(bs, 7) + 256 * ByteOr0(bs, 8)>>

\* the last k elements of a sequence
LastBytes(bs, k) == SubSeq(bs, Len(bs) - k + 1, Len(bs))

\* the published SipHash-2-4 64-bit outputs for key 00..0f and the messages
\* (), (00), (00 01), ..., (00 .. 3e)
ReferenceVectors ==
    <<
        Lit64(29295, 56135, 56590, 3633),  \*  0: 0x726fdb47dd0e0e31
        Lit64(29944, 14789, 37852, 26621),  \*  1: 0x74f839c593dc67fd
        Lit64(3436, 32777, 55721, 20314),  \*  2: 0x0d6c8009d9a94f5a
        Lit64(34151, 26262, 55291, 32301),  \*  3: 0x85676696d7fb7e2d
        Lit64(53031, 38112, 10097, 34743),  \*  4: 0xcf2794e0277187b7
        Lit64(6262, 21860, 52633, 42637),  \*  5: 0x18765564cd99a68d
        Lit64(52169, 18030, 22782, 58318),  \*  6: 0xcbc9466e58fee3ce
        Lit64(43778, 245, 35585, 53559),  \*  7: 0xab0200f58b01d137
        Lit64(37877, 62841, 39571, 9314),  \*  8: 0x93f5f5799a932462
        Lit64(40448, 33503, 2985, 58544),  \*  9: 0x9e0082df0ba9e4b0
        Lit64(31325, 48069, 38109, 47603),  \* 10: 0x7a5dbbc594ddb9f3
        Lit64(62643, 12102, 8811, 44455),  \* 11: 0xf4b32f46226bada7
        Lit64(29982, 36796, 34318, 58875),  \* 12: 0x751e8fbc860ee5fb
        Lit64(5354, 22055, 49284, 15760),  \* 13: 0x14ea5627c0843d90
        Lit64(63267, 51856, 36474, 62190),  \* 14: 0xf723ca908e7af2ee
        Lit64(41257, 51809, 18878, 17893),  \* 15: 0xa129ca6149be45e5
        Lit64(16170, 52351, 22466, 39899),  \* 16: 0x3f2acc7f57c29bdb
        Lit64(27034, 59893, 11454, 18324),  \* 17: 0x699ae9f52cbe4794
        Lit64(19393, 46064, 38541, 54172),  \* 18: 0x4bc1b3f0968dd39c
        Lit64(47981, 51485, 42873, 25021),  \* 19: 0xbb6dc91da77961bd
        Lit64(48854, 23794, 6818, 61080),  \* 20: 0xbed65cf21aa2ee98
        Lit64(53490, 52144, 11835, 26567),  \* 21: 0xd0f2cbb02e3b67c7
        Lit64(37715, 26517, 58275, 16008),  \* 22: 0x93536795e3a33e88
        Lit64(43020, 908, 52572, 52936),  \* 23: 0xa80c038ccd5ccec8
        Lit64(47277, 20678, 63049, 44948),  \* 24: 0xb8ad50c6f649af94
        Lit64(48353, 37598, 35461, 47338),  \* 25: 0xbce192de8a85b8ea
        Lit64(6104, 13752, 23483, 5619),  \* 26: 0x17d835b85bbb15f3
        Lit64(12078, 24931, 1899, 53165),  \* 27: 0x2f2e6163076bcfad
        Lit64(56909, 43692, 42781, 51621),  \* 28: 0xde4daaaca71dc9a5
        Lit64(42658, 20582, 34709, 25969),  \* 29: 0xa6a2506687956571
        Lit64(44423, 41811, 23625, 61224),  \* 30: 0xad87a3535c49ef28
        Lit64(13016, 37626, 55361, 49986),  \* 31: 0x32d892fad841c342
        Lit64(28967, 20783, 29426, 31950),  \* 32: 0x7127512f72f27cce
        Lit64(42995, 9030, 63833, 30947),  \* 33: 0xa7f32346f95978e3
        Lit64(4832, 45082, 47877, 4664),  \* 34: 0x12e0b01abb051238
        Lit64(5600, 13524, 4001, 38830),  \* 35: 0x15e034d40fa197ae
        Lit64(12621, 65470, 2069, 41908),  \* 36: 0x314dffbe0815a3b4
        Lit64(633, 37104, 10594, 14721),  \* 37: 0x027990f029623981
        Lit64(51932, 54501, 40692, 3149),  \* 38: 0xcadcd4e59ef40c4d
        Lit64(39615, 55414, 27187, 29532),  \* 39: 0x9abfd8766a33735c
        Lit64(3646, 43371, 21252, 42960),  \* 40: 0x0e3ea96b5304a7d0
        Lit64(44300, 17110, 64600, 22930),  \* 41: 0xad0c42d6fc585992
        Lit64(6259, 1736, 39874, 5545),  \* 42: 0x187306c89bc215a9
        Lit64(54438, 2748, 62329, 11157),  \* 43: 0xd4a60abcf3792b95
        Lit64(63797, 17693, 58610, 7666),  \* 44: 0xf935451de4f21df2
        Lit64(43347, 36612, 6517, 22407),  \* 45: 0xa9538f0419755787
        Lit64(56218, 52703, 62828, 42256),  \* 46: 0xdb9acddff56ca510
        Lit64(53356, 39117, 23561, 30187),  \* 47: 0xd06c98cd5c0975eb
        Lit64(58898, 41931, 40651, 43345),  \* 48: 0xe612a3cb9ecba951
        Lit64(51046, 58924, 64685, 44950),  \* 49: 0xc766e62cfcadaf96
        Lit64(61028, 17242, 38738, 65138),  \* 50: 0xee64435a9752fe72
        Lit64(41362, 54646, 45637, 5722),  \* 51: 0xa192d576b245165a
        Lit64(2695, 34751, 36555, 29874),  \* 52: 0x0a8787bf8ecb74b2
        Lit64(33203, 59197, 8372, 39791),  \* 53: 0x81b3e73d20b49b6f
        Lit64(32680, 8715, 41906, 60650),  \* 54: 0x7fa8220ba3b2ecea
        Lit64(9303, 12737, 15524, 9369),  \* 55: 0x245731c13ca42499
        Lit64(46989, 49071, 14989, 33725),  \* 56: 0xb78dbfaf3a8d83bd
        Lit64(59930, 54629, 12842, 6667),  \* 57: 0xea1ad565322a1a0b
        Lit64(24806, 7203, 41849, 20499),  \* 58: 0x60e61c23a3795013
        Lit64(26118, 55268, 17960, 11155),  \* 59: 0x6606d7e446282b93
        Lit64(27812, 60593, 23647, 37345),  \* 60: 0x6ca4ecb15c5f91e1
        Lit64(40802, 28065, 23702, 9715),  \* 61: 0x9f626da15c9625f3
        Lit64(58651, 14432, 36594, 24407),  \* 62: 0xe51b38608ef25f57
        Lit64(38282, 12876, 60166, 17778)   \* 63: 0x958a324ceb064572
    >>

\* 12552310112479190712 = 0xae32c38ad4dd9eb8, the value test_api asserts
ApiEmptyHash == Lit64(44594, 50058, 54493, 40632)

\* one engine, initialized with sd and fed m in a single append
OneAppend(sd, m) ==
    c_siphash_append(c_siphash_init(C_SIPHASH_NULL, sd),
                     m \o Trailing(255), Len(m))

(***************************************************************************)
(* C1  Streaming equivalence.  However the message was cut into appends,   *)
(* the engine is in the state a single append of the whole message leaves  *)
(* it in, and finalize returns the hash of that single-append run.         *)
(***************************************************************************)
C1_StreamingEquivalence ==
    /\ pc = "active" => state = OneAppend(seed, msg)
    /\ pc = "final" =>
          digest = Bind(OneAppend(seed, msg), LAMBDA s : c_siphash_finalize(s))

\* a message of two words and a byte, fed in several appends and finalized
C1_Witness ==
    pc = "final" /\ chunks = "many" /\ Len(msg) >= 17 /\ source = "mixed"

(***************************************************************************)
(* C2  The one-shot c_siphash_hash(seed, bytes, n) returns what a separate *)
(* engine returns after init(seed), one append(bytes, n) and finalize.     *)
(***************************************************************************)
C2_OneShotIsComposition ==
    (/\ call.op = "hash"
     /\ pc = "final"
     /\ chunks = "one"
     /\ call.seed = seed
     /\ SubSeq(call.bytes, 1, call.n) = msg)
        => call.ret = digest

C2_Witness ==
    /\ call.op = "hash" /\ pc = "final" /\ chunks = "one"
    /\ call.seed = seed /\ call.n = Len(msg) /\ Len(msg) >= 17

(***************************************************************************)
(* C3  Known-answer vectors: under the seed 00 01 .. 0f the one-shot hash  *)
(* of the message 00 01 .. (n-1), n in 0..63, is the published             *)
(* SipHash-2-4 value; n = 0 gives 0x726fdb47dd0e0e31 and n = 15 gives      *)
(* 0xa129ca6149be45e5.                                                     *)
(***************************************************************************)
C3_KnownAnswers ==
    (/\ call.op = "hash"
     /\ call.seed = VecSeed
     /\ call.source = "count"
     /\ call.n <= 63)
        => /\ call.ret = ReferenceVectors[call.n + 1]
           /\ call.n = 0 => call.ret = Lit64(29295, 56135, 56590, 3633)
           /\ call.n = 15 => call.ret = Lit64(41257, 51809, 18878, 17893)

C3_Witness ==
    call.op = "hash" /\ call.seed = VecSeed /\ call.source = "count" /\ call.n = 63

(***************************************************************************)
(* C4  Empty input: init, append(NULL, 0) (any number of empty appends),   *)
(* finalize returns a value fixed by the seed alone, the one finalize      *)
(* gives right after init; under the seed "0123456789abcdef" it is         *)
(* 12552310112479190712.                                                   *)
(***************************************************************************)
C4_EmptyInput ==
    (pc = "final" /\ msg = << >>)
        => /\ digest = Bind(c_siphash_init(C_SIPHASH_NULL, seed),
                            LAMBDA s : c_siphash_finalize(s))
           /\ seed = ApiSeed => digest = ApiEmptyHash

C4_Witness ==
    pc = "final" /\ msg = << >> /\ seed = ApiSeed /\ chunks = "one"

(***************************************************************************)
(* C5  Pending-bytes invariant: between calls n_bytes is the number of     *)
(* bytes appended and padding holds exactly the last n_bytes mod 8 bytes   *)
(* of the input, byte i at bit 8*i, every other byte of it being zero.     *)
(***************************************************************************)
C5_PendingBytes ==
    pc = "active" =>
        /\ state.n_bytes = WordOf(Len(msg))
        /\ state.padding = PackLE(LastBytes(msg, Len(msg) % 8))
        /\ state.padding[4] < 256
        /\ Len(msg) % 8 = 0 => state.padding = Zero64

\* seven pending bytes left by an append that crossed a word boundary
C5_Witness ==
    /\ pc = "active" /\ call.op = "append" /\ Len(msg) = 15
    /\ call.n >= 9 /\ And7(call.pre.n_bytes) # 0 /\ source = "mixed"

(***************************************************************************)
(* C6  c_siphash_append(state, bytes, n) dereferences no offset >= n,      *)
(* whatever the number of pending bytes: the result is the same for every  *)
(* buffer that agrees with bytes on its first n bytes, whatever follows    *)
(* them and also when nothing follows them.                                *)
(***************************************************************************)
SameFirstBytes(bytes, n) ==
    {SubSeq(bytes, 1, n)} \cup {SubSeq(bytes, 1, n) \o Trailing(f) : f \in {0, 90}}

C6_NoReadPastLength ==
    call.op = "append" =>
        /\ call.rd \subseteq 0 .. (call.n - 1)
        /\ \A other \in SameFirstBytes(call.bytes, call.n) :
              /\ c_siphash_append(call.pre, other, call.n) = state
              /\ Bind(c_siphash_append(call.pre, other, call.n),
                      LAMBDA s : c_siphash_finalize(s)) = c_siphash_finalize(state)

\* an append that drains, mixes a word and keeps a trailing byte, from a
\* buffer with bytes after its length
C6_Witness ==
    /\ call.op = "append" /\ And7(call.pre.n_bytes) = 7 /\ call.n = 10
    /\ Len(call.bytes) > call.n /\ call.rd = 0 .. 9

(***************************************************************************)
(* C7  c_siphash_append with n_bytes = 0 changes none of v0, v1, v2, v3,   *)
(* padding, n_bytes and dereferences nothing, on a word boundary or not.   *)
(***************************************************************************)
C7_EmptyAppendIsNoOp ==
    (call.op = "append" /\ call.n = 0) =>
        /\ state = call.pre
        /\ call.rd = {}

\* the NULL buffer appended to an engine holding pending bytes
C7_Witness ==
    /\ call.op = "append" /\ call.n = 0 /\ call.bytes = << >>
    /\ And7(call.pre.n_bytes) # 0 /\ call.pre.padding # Zero64

(***************************************************************************)
(* C8  Re-initialization resets the engine: whatever the struct held,      *)
(* c_siphash_init leaves the six fields a fresh engine gets for the seed,  *)
(* and what a re-initialized engine then hashes comes out as on a fresh    *)
(* engine.                                                                 *)
(***************************************************************************)
C8_ReinitResets ==
    /\ call.op = "init" =>
          /\ state = c_siphash_init(C_SIPHASH_NULL, seed)
          /\ state.padding = Zero64 /\ state.n_bytes = Zero64
    /\ (reused /\ pc = "active") =>
          state = c_siphash_append(c_siphash_init(C_SIPHASH_NULL, seed), msg, Len(msg))
    /\ (reused /\ pc = "final") => digest = c_siphash_hash(seed, msg, Len(msg))

\* an engine re-initialized, fed more than a word and finalized
C8_Witness ==
    reused /\ pc = "final" /\ Len(msg) >= 9 /\ chunks = "many"

\* an engine re-initialized while it held pending bytes
C8_WitnessMidWord ==
    call.op = "init" /\ call.was = "active" /\ call.pre.padding # Zero64

(***************************************************************************)
(* C9  c_siphash_finalize folds in the low 8 bits of the length only: the  *)
(* final block is padding with (n_bytes mod 256) in its top byte, which    *)
(* no pending byte occupies, and a struct that differs only by a multiple  *)
(* of 256 in n_bytes finalizes to the same hash.                           *)
(***************************************************************************)
C9_LengthByte ==
    call.op = "finalize" =>
        LET p == call.pre.padding
            n == Len(msg)
        IN  /\ p[4] < 256
            /\ call.b = <<p[1], p[2], p[3], p[4] + 256 * (n % 256)>>
            /\ \A d \in {-256, 256, 512, 65536} :
                  n + d >= 0 =>
                     c_siphash_finalize([call.pre EXCEPT !.n_bytes = WordOf(n + d)])
                        = digest

\* a message longer than 255 bytes finalized with pending bytes
C9_Witness ==
    call.op = "finalize" /\ Len(msg) > 256 /\ Len(msg) % 8 # 0

(***************************************************************************)
(* C10  Drain path: an append of n bytes to an engine holding r pending    *)
(* bytes, 1 <= r <= 7, leaves v0..v3 alone when r + n < 8; when            *)
(* r + n >= 8 it mixes the word made of the r pending bytes and the first  *)
(* 8 - r input bytes with two rounds, clears padding and goes on: in all   *)
(* it mixes the floor((r + n) / 8) words of pending bytes plus input, two  *)
(* rounds each, and keeps the rest as the new pending bytes.               *)
(***************************************************************************)
\* v3 ^= m, exactly two rounds, v0 ^= m
TwoRoundMix(s, m) ==
    Bind([s EXCEPT !.v3 = Xor64(s.v3, m)],
         LAMBDA a :
            Bind(c_siphash_sipround(a),
                 LAMBDA b :
                    Bind(c_siphash_sipround(b),
                         LAMBDA c : [c EXCEPT !.v0 = Xor64(c.v0, m)])))

\* words k .. nw of the byte sequence all, mixed in order
RECURSIVE MixWords(_, _, _, _)
MixWords(s, all, k, nw) ==
    IF k > nw THEN s
    ELSE Bind(TwoRoundMix(s, PackLE(SubSeq(all, 8 * k - 7, 8 * k))),
              LAMBDA t : MixWords(t, all, k + 1, nw))

Lanes(s) == <<s.v0, s.v1, s.v2, s.v3>>

C10_DrainPath ==
    (call.op = "append" /\ And7(call.pre.n_bytes) # 0) =>
        LET r   == And7(call.pre.n_bytes)
            n   == call.n
            all == LastBytes(SubSeq(msg, 1, Len(msg) - n), r) \o SubSeq(call.bytes, 1, n)
            nw  == (r + n) \div 8
        IN  /\ r + n < 8 => Lanes(state) = Lanes(call.pre)
            /\ r + n >= 8 =>
                  /\ Lanes(state) = Lanes(MixWords(call.pre, all, 1, nw))
                  /\ Lanes(state) # Lanes(call.pre)
                  /\ state.padding = PackLE(SubSeq(all, 8 * nw + 1, r + n))

\* two words mixed by one append that began with pending bytes
C10_Witness ==
    /\ call.op = "append" /\ And7(call.pre.n_bytes) # 0
    /\ (And7(call.pre.n_bytes) + call.n) \div 8 = 2

\* the input ends exactly on the word boundary the drain loop reaches
C10_WitnessExact ==
    /\ call.op = "append" /\ And7(call.pre.n_bytes) # 0
    /\ And7(call.pre.n_bytes) + call.n = 8

=============================================================================
